---- MODULE Spec2Model ----
(***************************************************************************)
(* Model of the workspace state store of src/git-mcp-server.py: the        *)
(* GitWorkspace class, the process-wide `workspaces` registry, and the     *)
(* tool handlers of handle_call_tool that read or write a workspace.       *)
(*                                                                         *)
(* Strings that the code takes apart (repository names) are sequences of   *)
(* one-character strings; opaque strings (contents, digests, branch        *)
(* names, URLs) are TLA+ strings.  A Python dict is a function whose       *)
(* DOMAIN is the dict's key set.  The local working tree and the GitHub    *)
(* API are the environment: what they answer is an input of the action.    *)
(***************************************************************************)
EXTENDS Integers, Sequences, FiniteSets, TLC

\* ------------------------------------------------------------------ bounds
MaxPaths == 2    \* number of file paths
MaxFiles == 2    \* longest `files` argument of git_add / git_rm
MaxStash == 1    \* most entries kept in stash.json
MaxCalls == 3    \* longest replayed sequence of staging calls
MaxOps == 4      \* tool invocations and process ends in one behaviour
MaxDispatch == 2 \* dispatched calls in one behaviour
MaxHeld == 203   \* most items that the endpoint holds
MaxWanted == 203 \* largest max_items
MaxStack == 2    \* most entries of stash.json when the stash is followed write by write

\* ------------------------------------------------------- enumerated inputs
Procs == {1}
NameAB == <<"a", "/", "b">>
Names == {NameAB}
PathNames == <<"a.txt", "b.txt", "c.txt", "d.txt">>
Paths == {PathNames[i] : i \in 1..MaxPaths}
Contents == {"hello", "bye"}
Branches == {"main", "feature"}
CloneUrl == "https://github.com/a/b.git"
Urls == {CloneUrl}
RemoteSha == "r1"
Messages == {""}

\* Python None and JSON null
None == "<None>"
JNull == "null"

\* hashlib.sha1(content.encode()).hexdigest()
Sha1(content) ==
    CASE content = "hello" -> "aaf4c61ddcc5e8a2dabede0f3b482cd9aea9434d"
      [] content = "bye"   -> "78c9a53e2f28b543ea62c8266acfdf36d5c63e61"
      [] OTHER             -> "11f6ad8ec52a2984abaafd7c3b516503785c2072"

\* ----------------------------------------------------------- dict helpers
EmptyDict == [k \in {} |-> ""]
DictSet(d, k, v) == [x \in (DOMAIN d) \cup {k} |-> IF x = k THEN v ELSE d[x]]
DictDel(d, k) == [x \in (DOMAIN d) \ {k} |-> d[x]]
DictGet(d, k, default) == IF k \in DOMAIN d THEN d[k] ELSE default
\* all dicts with keys in K and values in V
Dicts(K, V) == UNION {[S -> V] : S \in SUBSET K}

\* ------------------------------------------------------------ file system
\* str.replace(old, new) on a sequence of characters
StrReplace(s, old, new) == [i \in DOMAIN s |-> IF s[i] = old THEN new ELSE s[i]]

WORKSPACE_ROOT == <<"~", "/", "w">>
\* WORKSPACE_ROOT / repo_name.replace("/", "_")
DefaultPath(repo_name) == WORKSPACE_ROOT \o <<"/">> \o StrReplace(repo_name, "/", "_")
\* a directory outside WORKSPACE_ROOT, the `directory` of git_clone / git_init
ExtDir == <<"/", "x", "/", "a", "_", "b">>
Dirs == {DefaultPath(n) : n \in Names} \cup {ExtDir}

Absent == [kind |-> "absent"]
Corrupt == [kind |-> "corrupt"]
JsonFile(doc) == [kind |-> "json", doc |-> doc]

EmptyDir == [gitmcp |-> FALSE, state |-> Absent, stash |-> Absent]

\* ------------------------------------------------------------ GitWorkspace
\* GitWorkspace.__init__
NewWorkspace(repo_name) ==
    [repo_name      |-> repo_name,
     workspace_path |-> DefaultPath(repo_name),
     staging_area   |-> EmptyDict,
     tracked_files  |-> EmptyDict,
     current_branch |-> "main",
     remote_url     |-> None]

\* the four persisted fields of a workspace
Fields(w) ==
    [staging_area   |-> w.staging_area,
     tracked_files  |-> w.tracked_files,
     current_branch |-> w.current_branch,
     remote_url     |-> w.remote_url]

\* json.dump of the state dict: None is written as null
JsonDump(w) ==
    [staging_area   |-> w.staging_area,
     tracked_files  |-> w.tracked_files,
     current_branch |-> w.current_branch,
     remote_url     |-> IF w.remote_url = None THEN JNull ELSE w.remote_url]

\* variant: the staging map is looked up under a key that save_state
\* does not write
JsonLoad_wrong_key(w, doc) ==
    [w EXCEPT
       !.staging_area   = DictGet(doc, "staging", EmptyDict),
       !.tracked_files  = DictGet(doc, "tracked_files", EmptyDict),
       !.current_branch = DictGet(doc, "current_branch", "main"),
       !.remote_url     = LET u == DictGet(doc, "remote_url", JNull)
                          IN  IF u = JNull THEN None ELSE u]

\* json.load followed by the four state.get(...) of load_state
JsonLoad(w, doc) ==
    [w EXCEPT
       !.staging_area   = DictGet(doc, "staging_area", EmptyDict),
       !.tracked_files  = DictGet(doc, "tracked_files", EmptyDict),
       !.current_branch = DictGet(doc, "current_branch", "main"),
       !.remote_url     = LET u == DictGet(doc, "remote_url", JNull)
                          IN  IF u = JNull THEN None ELSE u]

\* save_state: open(state_file, 'w') fails when .git-mcp does not exist
save_state(w, f) ==
    IF f[w.workspace_path].gitmcp
    THEN [exc |-> FALSE, w |-> w,
          fs  |-> [f EXCEPT ![w.workspace_path].state = JsonFile(JsonDump(w))]]
    ELSE [exc |-> TRUE, w |-> w, fs |-> f]

\* load_state: a missing file keeps the defaults, a malformed one raises
load_state(w, f) ==
    LET file == f[w.workspace_path].state IN
    CASE file.kind = "absent"  -> [exc |-> FALSE, w |-> w, fs |-> f]
      [] file.kind = "corrupt" -> [exc |-> TRUE, w |-> w, fs |-> f]
      [] OTHER                 -> [exc |-> FALSE, w |-> JsonLoad(w, file.doc), fs |-> f]

\* GitWorkspace.init: both mkdir calls, then save_state
init(w, f) ==
    save_state(w, [f EXCEPT ![w.workspace_path].gitmcp = TRUE])

\* variant: the entries of state.json are read back and kept when saving
add_to_staging_merging(w, f, file_path, content) ==
    LET file == f[w.workspace_path].state
        disk == IF file.kind = "json" THEN DictGet(file.doc, "staging_area", EmptyDict)
                ELSE EmptyDict
        kept == [x \in (DOMAIN disk) \cup (DOMAIN w.staging_area) |->
                    IF x \in DOMAIN w.staging_area THEN w.staging_area[x] ELSE disk[x]]
    IN  save_state([w EXCEPT !.staging_area = DictSet(kept, file_path, content)], f)

add_to_staging(w, f, file_path, content) ==
    save_state([w EXCEPT !.staging_area = DictSet(@, file_path, content)], f)

\* variant: the entry is deleted and the state is not saved
remove_from_staging_unsaved(w, f, file_path) ==
    [exc |-> FALSE, w |-> [w EXCEPT !.staging_area = DictDel(@, file_path)], fs |-> f]

\* variant: the state is saved whether or not the path was staged
remove_from_staging_always_saves(w, f, file_path) ==
    save_state([w EXCEPT !.staging_area = DictDel(@, file_path)], f)

remove_from_staging(w, f, file_path) ==
    IF file_path \in DOMAIN w.staging_area
    THEN save_state([w EXCEPT !.staging_area = DictDel(@, file_path)], f)
    ELSE [exc |-> FALSE, w |-> w, fs |-> f]

\* variant: the state is saved before the map is emptied
clear_staging_save_first(w, f) ==
    LET r == save_state(w, f) IN [r EXCEPT !.w.staging_area = EmptyDict]

clear_staging(w, f) ==
    save_state([w EXCEPT !.staging_area = EmptyDict], f)

\* get_workspace: reg is the `workspaces` dict of the calling process
get_workspace(reg, f, repo_name) ==
    IF repo_name \notin DOMAIN reg
    THEN LET i == init(NewWorkspace(repo_name), f)
             l == IF i.exc THEN i ELSE load_state(i.w, i.fs)
         IN  [exc |-> l.exc, w |-> l.w, fs |-> l.fs]
    ELSE [exc |-> FALSE, w |-> reg[repo_name], fs |-> f]

\* ------------------------------------------------------------------ state
VARIABLES
    workspaces,   \* per process: the `workspaces` dict, repo name -> GitWorkspace
    fs,           \* per directory: .git-mcp exists, state.json, stash.json
    last,         \* what the last tool invocation returned
    ops,          \* number of invocations and process ends so far
    run,          \* the handler that is part-way through its statements
    calls         \* history: the staging calls made on the workspace

aux == <<run, calls>>
vars == <<workspaces, fs, last, ops, run, calls>>

Idle == [pc |-> "idle"]

NoResult == [tool |-> "none", proc |-> 0, repo |-> <<>>, kind |-> "none",
             isError |-> FALSE, files |-> {}]

\* a list of TextContent returned by the handler: never flagged as an error
Text(tool, p, repo, kind, files) ==
    [tool |-> tool, proc |-> p, repo |-> repo, kind |-> kind,
     isError |-> FALSE, files |-> files]

Init ==
    /\ workspaces = [p \in Procs |-> EmptyDict]
    /\ fs = [d \in Dirs |-> EmptyDir]
    /\ last = NoResult
    /\ ops = 0
    /\ run = Idle
    /\ calls = <<>>

\* the handler of process p leaves workspace w registered under repo
Register(p, repo, w) ==
    /\ run = Idle
    /\ UNCHANGED calls
    /\ UNCHANGED run
    /\ workspaces' = [workspaces EXCEPT ![p] = DictSet(@, repo, w)]

\* `except Exception as e` of handle_call_tool: the error text is returned
\* with whatever the handler had changed so far
Finish(tool, p, repo, r, okKind, files) ==
    /\ Register(p, repo, r.w)
    /\ fs' = r.fs
    /\ last' = Text(tool, p, repo, IF r.exc THEN "error" ELSE okKind,
                    IF r.exc THEN {} ELSE files)

\* ---------------------------------------------------------------- git_add
\* what the working tree holds for one entry of `files`
AddItems ==
    {[kind |-> "missing", path |-> "", content |-> ""],
     [kind |-> "outside", path |-> "", content |-> ""]}
    \cup {[kind |-> "file", path |-> p, content |-> c] : p \in Paths, c \in Contents}

RECURSIVE AddLoop(_, _, _, _)
AddLoop(w, f, items, added) ==
    IF items = <<>> THEN [exc |-> FALSE, w |-> w, fs |-> f, added |-> added]
    ELSE LET it == Head(items) IN
         CASE it.kind = "missing" -> AddLoop(w, f, Tail(items), added)
           \* an existing file given by an absolute path: relative_to raises
           [] it.kind = "outside" -> [exc |-> TRUE, w |-> w, fs |-> f, added |-> added]
           [] OTHER ->
                LET r == add_to_staging(w, f, it.path, it.content) IN
                IF r.exc THEN [exc |-> TRUE, w |-> r.w, fs |-> r.fs, added |-> added]
                ELSE AddLoop(r.w, r.fs, Tail(items), added \cup {it.path})

GitAdd(p, repo, items) ==
    LET g == get_workspace(workspaces[p], fs, repo)
        r == AddLoop(g.w, g.fs, items, {})
    IN  Finish("git_add", p, repo, r, "ok", r.added)

\* ------------------------------------------------------------- git_commit
\* variants of the loop body: the content is stored unhashed; the map is
\* rebuilt from the file at hand
track_file_unhashed(w, file) ==
    [w EXCEPT !.tracked_files = DictSet(@, file, w.staging_area[file])]

track_file_rebuilt(w, file) ==
    [w EXCEPT !.tracked_files = DictSet(EmptyDict, file, Sha1(w.staging_area[file]))]

\* one iteration of `for file, content in workspace.staging_area.items()`:
\* tracked_files[file] = sha1(content)
track_file(w, file) ==
    [w EXCEPT !.tracked_files = DictSet(@, file, Sha1(w.staging_area[file]))]

RECURSIVE MoveToTracked(_, _)
MoveToTracked(w, todo) ==
    IF todo = {} THEN w
    ELSE LET file == CHOOSE x \in todo : TRUE IN
         MoveToTracked(track_file(w, file), todo \ {file})

GitCommit(p, repo) ==
    LET g == get_workspace(workspaces[p], fs, repo)
        w == g.w
    IN  IF w.staging_area = EmptyDict
        THEN Finish("git_commit", p, repo, g, "nothing", {})
        ELSE LET files == DOMAIN w.staging_area
                 r == clear_staging(MoveToTracked(w, files), g.fs)
             IN  Finish("git_commit", p, repo, r, "ok", files)

\* git_commit statement by statement.  The handler has no await: from
\* CommitBegin to CommitReturn no other handler of the process runs.
CommitBegin(p, repo) ==
    LET g == get_workspace(workspaces[p], fs, repo)
        w == g.w
    IN  /\ run = Idle
        /\ workspaces' = [workspaces EXCEPT ![p] = DictSet(@, repo, w)]
        /\ fs' = g.fs
        /\ IF w.staging_area = EmptyDict
           THEN /\ last' = Text("git_commit", p, repo, "nothing", {})
                /\ run' = Idle
           ELSE /\ last' = last
                /\ run' = [pc    |-> "loop", proc |-> p, repo |-> repo,
                           todo  |-> DOMAIN w.staging_area,
                           files |-> DOMAIN w.staging_area,
                           pre   |-> [w |-> w, disk |-> g.fs[w.workspace_path].state]]
        /\ UNCHANGED <<ops, calls>>

CommitMove ==
    /\ run.pc = "loop"
    /\ \E file \in run.todo :
          /\ workspaces' = [workspaces EXCEPT ![run.proc][run.repo] = track_file(@, file)]
          /\ run' = [run EXCEPT !.todo = @ \ {file}]
    /\ UNCHANGED <<fs, last, ops, calls>>

CommitClear ==
    /\ run.pc = "loop"
    /\ run.todo = {}
    /\ LET r == clear_staging(workspaces[run.proc][run.repo], fs) IN
          /\ workspaces' = [workspaces EXCEPT ![run.proc][run.repo] = r.w]
          /\ fs' = r.fs
          /\ last' = Text("git_commit", run.proc, run.repo,
                          IF r.exc THEN "error" ELSE "ok",
                          IF r.exc THEN {} ELSE run.files)
    /\ run' = [run EXCEPT !.pc = "returned"]
    /\ UNCHANGED <<ops, calls>>

CommitReturn ==
    /\ run.pc = "returned"
    /\ run' = Idle
    /\ UNCHANGED <<workspaces, fs, last, ops, calls>>

\* ----------------------------------------------------------- git_checkout
\* apiFails: parse_repo_info or one of the two GitHub requests raises
GitCheckout(p, repo, branch, create, apiFails) ==
    LET g == get_workspace(workspaces[p], fs, repo)
        w == g.w
    IN  IF create /\ w.remote_url # None /\ apiFails
        THEN Finish("git_checkout", p, repo, [g EXCEPT !.exc = TRUE], "ok", {})
        ELSE Finish("git_checkout", p, repo,
                    save_state([w EXCEPT !.current_branch = branch], g.fs), "ok", {})

\* ------------------------------------------------------------- git_remote
\* url = None: the argument is missing
GitRemote(p, repo, action, url) ==
    LET g == get_workspace(workspaces[p], fs, repo)
        w == g.w
    IN  CASE action = "list" ->
               Finish("git_remote", p, repo, g,
                      IF w.remote_url # None THEN "ok" ELSE "noremote", {})
          [] action = "add" ->
               IF url = None
               THEN Finish("git_remote", p, repo, [g EXCEPT !.exc = TRUE], "ok", {})
               ELSE Finish("git_remote", p, repo,
                           save_state([w EXCEPT !.remote_url = url], g.fs), "ok", {})
          [] OTHER ->
               Finish("git_remote", p, repo,
                      save_state([w EXCEPT !.remote_url = None], g.fs), "ok", {})

\* -------------------------------------------------------------- git_stash
\* f"WIP on {workspace.current_branch}"
WipOn(branch) == IF branch = "main" THEN "WIP on main" ELSE "WIP on feature"

\* json.load(stash_file) where the file exists, [] otherwise
LoadStashes(f, dir) == IF f[dir].stash.kind = "json" THEN f[dir].stash.doc ELSE <<>>

\* open(stash_file, 'w') + json.dump: fails when .git-mcp does not exist
WriteStashes(w, f, stashes) ==
    IF f[w.workspace_path].gitmcp
    THEN [exc |-> FALSE, w |-> w,
          fs  |-> [f EXCEPT ![w.workspace_path].stash = JsonFile(stashes)]]
    ELSE [exc |-> TRUE, w |-> w, fs |-> f]

GitStashSave(p, repo, message) ==
    LET g == get_workspace(workspaces[p], fs, repo)
        w == g.w
        stash_data == [message |-> IF message # "" THEN message ELSE WipOn(w.current_branch),
                       branch  |-> w.current_branch,
                       files   |-> w.staging_area]
        stashes == <<stash_data>> \o LoadStashes(g.fs, w.workspace_path)
        wr == WriteStashes(w, g.fs, stashes)
    IN  IF w.staging_area = EmptyDict
        THEN Finish("git_stash", p, repo, g, "nochanges", {})
        ELSE /\ Len(LoadStashes(g.fs, w.workspace_path)) < MaxStash
             /\ IF wr.exc
                THEN Finish("git_stash", p, repo, wr, "ok", {})
                ELSE Finish("git_stash", p, repo, clear_staging(w, wr.fs), "ok", {})

\* action in ["pop", "apply"]
GitStashPop(p, repo, action) ==
    LET g == get_workspace(workspaces[p], fs, repo)
        w == g.w
        stashes == LoadStashes(g.fs, w.workspace_path)
    IN  IF g.fs[w.workspace_path].stash.kind = "absent" \/ stashes = <<>>
        THEN Finish("git_stash", p, repo, g, "nostash", {})
        ELSE LET stash == stashes[1]
                 sv == save_state([w EXCEPT !.staging_area = stash.files], g.fs)
             IN  IF sv.exc \/ action # "pop"
                 THEN Finish("git_stash", p, repo, sv, "ok", DOMAIN stash.files)
                 ELSE Finish("git_stash", p, repo,
                             WriteStashes(sv.w, sv.fs, Tail(stashes)), "ok",
                             DOMAIN stash.files)

\* ----------------------------------------------------------------- git_rm
\* an entry of `files`: a relative path, or "outside": an absolute path,
\* for which file_path.relative_to(workspace_path) raises ValueError
RmItems == Paths \cup {"outside"}

RECURSIVE RmLoop(_, _)
RmLoop(w, items) ==
    IF items = <<>> THEN [exc |-> FALSE, w |-> w]
    ELSE LET rel_path == Head(items) IN
         IF rel_path = "outside" THEN [exc |-> TRUE, w |-> w]
         ELSE RmLoop([w EXCEPT !.tracked_files = DictDel(@, rel_path),
                               !.staging_area  = DictDel(@, rel_path)],
                     Tail(items))

GitRm(p, repo, items) ==
    LET g == get_workspace(workspaces[p], fs, repo)
        l == RmLoop(g.w, items)
    IN  IF l.exc
        THEN Finish("git_rm", p, repo, [exc |-> TRUE, w |-> l.w, fs |-> g.fs], "ok", {})
        ELSE Finish("git_rm", p, repo, save_state(l.w, g.fs), "ok", {})

\* ----------------------------------------------------------------- git_mv
\* a dict entry is renamed by an assignment followed by a del
DictMove(d, src, dst) ==
    IF src \in DOMAIN d THEN DictDel(DictSet(d, dst, d[src]), src) ELSE d

\* movable: the source exists and both paths lie inside the workspace
GitMv(p, repo, source, destination, movable) ==
    LET g == get_workspace(workspaces[p], fs, repo)
        w == g.w
    IN  IF ~movable
        THEN Finish("git_mv", p, repo, [g EXCEPT !.exc = TRUE], "ok", {})
        ELSE Finish("git_mv", p, repo,
                    save_state([w EXCEPT
                                  !.tracked_files = DictMove(@, source, destination),
                                  !.staging_area  = DictMove(@, source, destination)],
                               g.fs), "ok", {})

\* -------------------------------------------------------- git_clone, git_pull
\* workspace.tracked_files[item["path"]] = item["sha"] for the fetched items
Overlay(tracked, fetched) ==
    [x \in (DOMAIN tracked) \cup (DOMAIN fetched) |->
        IF x \in DOMAIN fetched THEN fetched[x] ELSE tracked[x]]

\* the remote repository holds at most a.txt
Fetched == Dicts({"a.txt"}, {RemoteSha})
ApiOutcomes == {"ok", "bad_url", "unreachable", "listing_fails"}

\* What github_request answers is the environment's choice.  The repository
\* of repo_url is `repo`; directory and branch are arguments.
\* api = "bad_url": parse_repo_info raises, before get_workspace;
\* "unreachable": the first request fails; "listing_fails": a contents
\* request of clone_directory fails after `fetched` was stored
GitClone(p, repo, directory, branch, api, fetched) ==
    LET g == get_workspace(workspaces[p], fs, repo)
        w1 == [g.w EXCEPT !.workspace_path = directory,
                          !.remote_url = CloneUrl,
                          !.current_branch = branch]
        w2 == [w1 EXCEPT !.tracked_files = Overlay(@, fetched)]
    IN  CASE api = "bad_url" ->
               /\ run = Idle
               /\ last' = Text("git_clone", p, repo, "error", {})
               /\ UNCHANGED <<workspaces, fs, run, calls>>
          [] api = "unreachable" ->
               /\ Register(p, repo, w1)
               /\ fs' = g.fs
               /\ last' = Text("git_clone", p, repo, "api_error", {})
          [] api = "listing_fails" ->
               Finish("git_clone", p, repo, [exc |-> TRUE, w |-> w2, fs |-> g.fs], "ok", {})
          [] OTHER ->
               Finish("git_clone", p, repo, save_state(w2, g.fs), "ok", DOMAIN fetched)

\* fails: parse_repo_info or a request of pull_directory raises after
\* `fetched` was stored
GitPull(p, repo, fails, fetched) ==
    LET g == get_workspace(workspaces[p], fs, repo)
        w == g.w
        w1 == [w EXCEPT !.tracked_files = Overlay(@, fetched)]
    IN  IF w.remote_url = None
        THEN Finish("git_pull", p, repo, g, "noremote", {})
        ELSE IF fails
             THEN Finish("git_pull", p, repo, [exc |-> TRUE, w |-> w1, fs |-> g.fs], "ok", {})
             ELSE Finish("git_pull", p, repo, save_state(w1, g.fs), "ok", DOMAIN fetched)

\* ------------------------------------------------------------- lifecycle
\* the process ends; the next invocation runs in a new process whose
\* `workspaces` dict is empty
ProcessExit(p) ==
    /\ workspaces[p] # EmptyDict
    /\ run = Idle
    /\ UNCHANGED aux
    /\ workspaces' = [workspaces EXCEPT ![p] = EmptyDict]
    /\ last' = NoResult
    /\ UNCHANGED fs

\* the process is killed inside save_state, between open(state_file, 'w'),
\* which truncates the file, and the end of json.dump: state.json is left
\* malformed and the memory of the process is gone
KilledInSaveState(p, repo) ==
    /\ repo \in DOMAIN workspaces[p]
    /\ fs[workspaces[p][repo].workspace_path].gitmcp
    /\ run = Idle
    /\ UNCHANGED aux
    /\ fs' = [fs EXCEPT ![workspaces[p][repo].workspace_path].state = Corrupt]
    /\ workspaces' = [workspaces EXCEPT ![p] = EmptyDict]
    /\ last' = NoResult

\* ------------------------------------------------------------------- spec
FileLists == UNION {[1..k -> AddItems] : k \in 1..MaxFiles}

RmLists == UNION {[1..k -> RmItems] : k \in 1..MaxFiles}

\* one more invocation or process end, up to MaxOps
Tick == ops < MaxOps /\ ops' = ops + 1

Next ==
    \E p \in Procs, repo \in Names :
        \/ \E items \in FileLists : GitAdd(p, repo, items) /\ Tick
        \/ GitCommit(p, repo) /\ Tick
        \/ \E b \in Branches, create \in BOOLEAN, apiFails \in BOOLEAN :
              GitCheckout(p, repo, b, create, apiFails) /\ Tick
        \/ \E action \in {"list", "add", "remove"}, url \in Urls \cup {None} :
              GitRemote(p, repo, action, url) /\ Tick
        \/ \E m \in Messages : GitStashSave(p, repo, m) /\ Tick
        \/ \E action \in {"pop", "apply"} : GitStashPop(p, repo, action) /\ Tick
        \/ \E items \in RmLists : GitRm(p, repo, items) /\ Tick
        \/ \E s \in Paths, d \in Paths, movable \in BOOLEAN :
              GitMv(p, repo, s, d, movable) /\ Tick
        \/ \E dir \in Dirs, b \in Branches, api \in ApiOutcomes, fetched \in Fetched :
              GitClone(p, repo, dir, b, api, fetched) /\ Tick
        \/ \E fails \in BOOLEAN, fetched \in Fetched : GitPull(p, repo, fails, fetched) /\ Tick
        \/ ProcessExit(p) /\ Tick
        \/ KilledInSaveState(p, repo) /\ Tick

Spec == Init /\ [][Next]_vars

\* ------------------------------------------------- git_commit in statements
Digests == {Sha1(c) : c \in Contents} \cup {RemoteSha}

\* the workspaces that handlers can leave registered under repo
WorkspaceStates(repo) ==
    {[repo_name |-> repo, workspace_path |-> d, staging_area |-> s,
      tracked_files |-> t, current_branch |-> b, remote_url |-> u] :
        d \in {DefaultPath(repo), ExtDir}, s \in Dicts(Paths, Contents),
        t \in Dicts(Paths, Digests), b \in Branches, u \in Urls \cup {None}}

\* a process holds a workspace of NameAB; its state.json holds either the
\* same fields or, after a handler that returned without save_state, the
\* defaults; a directory given to git_clone has no .git-mcp
InitCommit ==
    \E w \in WorkspaceStates(NameAB), saved \in BOOLEAN :
        /\ workspaces = [p \in Procs |-> DictSet(EmptyDict, NameAB, w)]
        /\ fs = [d \in Dirs |->
                   IF d = DefaultPath(NameAB)
                   THEN [gitmcp |-> TRUE, stash |-> Absent,
                         state  |-> IF saved /\ w.workspace_path = d
                                    THEN JsonFile(JsonDump(w))
                                    ELSE JsonFile(JsonDump(NewWorkspace(NameAB)))]
                   ELSE EmptyDir]
        /\ last = NoResult
        /\ ops = 0
        /\ run = Idle
        /\ calls = <<>>

NextCommit ==
    \/ \E p \in Procs, repo \in Names : CommitBegin(p, repo)
    \/ CommitMove
    \/ CommitClear
    \/ CommitReturn
    \/ \E p \in Procs, repo \in Names, item \in AddItems :
          GitAdd(p, repo, <<item>>) /\ UNCHANGED ops
    \/ \E p \in Procs : ProcessExit(p) /\ UNCHANGED ops

SpecCommit == InitCommit /\ [][NextCommit]_vars

\* ------------------------------------------- staging calls on a workspace
\* what state.json of the repository held before the process started
PriorFiles ==
    {Absent, Corrupt,
     JsonFile(JsonDump([NewWorkspace(NameAB) EXCEPT
                          !.staging_area = DictSet(EmptyDict, "a.txt", "hello")]))}

\* the state right after get_workspace(NameAB) in a new process
InitStaging ==
    \E prior \in PriorFiles :
        LET f0 == [d \in Dirs |->
                     IF d = DefaultPath(NameAB)
                     THEN [gitmcp |-> prior # Absent, state |-> prior, stash |-> Absent]
                     ELSE EmptyDir]
            g == get_workspace(EmptyDict, f0, NameAB)
        IN  /\ workspaces = [p \in Procs |-> DictSet(EmptyDict, NameAB, g.w)]
            /\ fs = g.fs
            /\ last = NoResult
            /\ ops = 0
            /\ run = Idle
            /\ calls = <<>>

\* workspace.add_to_staging(file_path, content) returns
StageCall(p, repo, file_path, content) ==
    LET r == add_to_staging(workspaces[p][repo], fs, file_path, content) IN
    /\ Len(calls) < MaxCalls
    /\ ~r.exc
    /\ workspaces' = [workspaces EXCEPT ![p][repo] = r.w]
    /\ fs' = r.fs
    /\ calls' = Append(calls, [op |-> "add", path |-> file_path, content |-> content])
    /\ UNCHANGED <<last, ops, run>>

\* workspace.remove_from_staging(file_path) returns
UnstageCall(p, repo, file_path) ==
    LET r == remove_from_staging(workspaces[p][repo], fs, file_path) IN
    /\ Len(calls) < MaxCalls
    /\ ~r.exc
    /\ workspaces' = [workspaces EXCEPT ![p][repo] = r.w]
    /\ fs' = r.fs
    /\ calls' = Append(calls, [op |-> "remove", path |-> file_path, content |-> ""])
    /\ UNCHANGED <<last, ops, run>>

NextStaging ==
    \E p \in Procs, repo \in Names, file_path \in Paths :
        \/ \E content \in Contents : StageCall(p, repo, file_path, content)
        \/ UnstageCall(p, repo, file_path)

SpecStaging == InitStaging /\ [][NextStaging]_vars

\* ------------------------------------------------- save_state, load_state
\* a workspace in any state whose directories were made by init
InitRoundTrip ==
    \E w \in WorkspaceStates(NameAB) :
        /\ workspaces = [p \in Procs |-> DictSet(EmptyDict, NameAB, w)]
        /\ fs = [d \in Dirs |-> [gitmcp |-> TRUE, stash |-> Absent,
                                 state  |-> JsonFile(JsonDump(NewWorkspace(NameAB)))]]
        /\ last = NoResult
        /\ ops = 0
        /\ run = Idle
        /\ calls = <<>>

\* workspace.save_state()
SaveCall(p, repo) ==
    LET r == save_state(workspaces[p][repo], fs) IN
    /\ last.tool = "none"
    /\ fs' = r.fs
    /\ last' = Text("save_state", p, repo, IF r.exc THEN "error" ELSE "ok", {})
    /\ UNCHANGED <<workspaces, ops, run, calls>>

\* a new GitWorkspace for the same workspace_path, then load_state()
LoadCall(p, repo) ==
    LET fresh == [NewWorkspace(repo) EXCEPT
                    !.workspace_path = workspaces[p][repo].workspace_path]
        r == load_state(fresh, fs)
    IN  /\ last.tool = "save_state"
        /\ workspaces' = [workspaces EXCEPT ![p][repo] = r.w]
        /\ last' = Text("load_state", p, repo, IF r.exc THEN "error" ELSE "ok", {})
        /\ UNCHANGED <<fs, ops, run, calls>>

NextRoundTrip ==
    \E p \in Procs, repo \in Names :
        \/ SaveCall(p, repo)
        \/ LoadCall(p, repo)

SpecRoundTrip == InitRoundTrip /\ [][NextRoundTrip]_vars

\* ------------------------------------- remove_from_staging on any workspace
\* workspace.remove_from_staging(file_path) on a workspace in any state,
\* also one whose directory has no .git-mcp; an exception is reported
RemoveCall(p, repo, file_path) ==
    LET r == remove_from_staging(workspaces[p][repo], fs, file_path) IN
    /\ workspaces' = [workspaces EXCEPT ![p][repo] = r.w]
    /\ fs' = r.fs
    /\ last' = Text("remove_from_staging", p, repo,
                    IF r.exc THEN "error" ELSE "ok", {file_path})
    /\ UNCHANGED <<ops, run, calls>>

NextUnstage ==
    \E p \in Procs, repo \in Names, file_path \in Paths : RemoveCall(p, repo, file_path)

SpecUnstage == InitCommit /\ [][NextUnstage]_vars

\* ----------------------------------------- git_pull, await by await
\* handle_call_tool is a coroutine: at `await github_request(...)` it hands
\* control to the event loop, which runs whatever task is ready.  The code
\* holds no lock on a workspace, so an invocation that the server has
\* dispatched meanwhile runs on the same GitWorkspace object.
Suspended == {"pull_listing", "pull_file"}

\* what a handler that runs without the guard of Register leaves behind
Effect(tool, p, repo, r, okKind, files) ==
    /\ workspaces' = [workspaces EXCEPT ![p] = DictSet(@, repo, r.w)]
    /\ fs' = r.fs
    /\ last' = Text(tool, p, repo, IF r.exc THEN "error" ELSE okKind,
                    IF r.exc THEN {} ELSE files)

\* git_pull up to the first await of pull_directory
PullBegin(p, repo) ==
    LET g == get_workspace(workspaces[p], fs, repo)
        w == g.w
    IN  /\ run = Idle
        /\ workspaces' = [workspaces EXCEPT ![p] = DictSet(@, repo, w)]
        /\ fs' = g.fs
        /\ IF w.remote_url = None
           THEN /\ last' = Text("git_pull", p, repo, "noremote", {})
                /\ run' = Idle
           ELSE /\ last' = last
                /\ run' = [pc    |-> "pull_listing", proc |-> p, repo |-> repo,
                           todo  |-> EmptyDict, files |-> {},
                           pre   |-> [w |-> w, disk |-> g.fs[w.workspace_path].state]]
        /\ UNCHANGED <<ops, calls>>

\* the contents request completes: it raises, or it lists `fetched`
PullListing(fails, fetched) ==
    /\ run.pc = "pull_listing"
    /\ LET w == workspaces[run.proc][run.repo] IN
       IF fails
       THEN /\ Effect("git_pull", run.proc, run.repo,
                      [exc |-> TRUE, w |-> w, fs |-> fs], "ok", {})
            /\ run' = Idle
       ELSE IF fetched = EmptyDict
            THEN /\ Effect("git_pull", run.proc, run.repo, save_state(w, fs), "ok", {})
                 /\ run' = Idle
            ELSE /\ run' = [run EXCEPT !.pc = "pull_file", !.todo = fetched]
                 /\ UNCHANGED <<workspaces, fs, last>>
    /\ UNCHANGED <<ops, calls>>

\* the download of one listed file completes: it raises, or the file is
\* tracked under item["sha"]; after the last one save_state and return
PullFile(fails) ==
    /\ run.pc = "pull_file"
    /\ \E path \in DOMAIN run.todo :
          LET w    == workspaces[run.proc][run.repo]
              w1   == [w EXCEPT !.tracked_files = DictSet(@, path, run.todo[path])]
              rest == DictDel(run.todo, path)
              done == run.files \cup {path}
          IN  IF fails
              THEN /\ Effect("git_pull", run.proc, run.repo,
                             [exc |-> TRUE, w |-> w, fs |-> fs], "ok", {})
                   /\ run' = Idle
              ELSE IF rest = EmptyDict
                   THEN /\ Effect("git_pull", run.proc, run.repo,
                                  save_state(w1, fs), "ok", done)
                        /\ run' = Idle
                   ELSE /\ workspaces' = [workspaces EXCEPT ![run.proc][run.repo] = w1]
                        /\ run' = [run EXCEPT !.todo = rest, !.files = done]
                        /\ UNCHANGED <<fs, last>>
    /\ UNCHANGED <<ops, calls>>

\* git_add of one file, dispatched while git_pull is suspended
AddWhileSuspended(p, repo, item) ==
    LET g == get_workspace(workspaces[p], fs, repo)
        r == AddLoop(g.w, g.fs, <<item>>, {})
    IN  /\ run.pc \in Suspended
        /\ Effect("git_add", p, repo, r, "ok", r.added)
        /\ UNCHANGED <<run, ops, calls>>

\* git_commit, dispatched while git_pull is suspended
CommitWhileSuspended(p, repo) ==
    LET g == get_workspace(workspaces[p], fs, repo)
        w == g.w
    IN  /\ run.pc \in Suspended
        /\ IF w.staging_area = EmptyDict
           THEN Effect("git_commit", p, repo, g, "nothing", {})
           ELSE Effect("git_commit", p, repo,
                       clear_staging(MoveToTracked(w, DOMAIN w.staging_area), g.fs),
                       "ok", DOMAIN w.staging_area)
        /\ UNCHANGED <<run, ops, calls>>

NextAwait ==
    \/ \E p \in Procs, repo \in Names : PullBegin(p, repo)
    \/ \E fails \in BOOLEAN, fetched \in Fetched : PullListing(fails, fetched)
    \/ \E fails \in BOOLEAN : PullFile(fails)
    \/ \E p \in Procs, repo \in Names, item \in AddItems : AddWhileSuspended(p, repo, item)
    \/ \E p \in Procs, repo \in Names : CommitWhileSuspended(p, repo)

SpecAwait == InitCommit /\ [][NextAwait]_vars

\* ------------------------------------------------ handle_call_tool dispatch
\* the names returned by handle_list_tools of git-mcp-server.py, in order
GitListedTools ==
    <<"git_init", "git_clone", "git_status", "git_add", "git_commit",
      "git_push", "git_pull", "git_branch", "git_checkout", "git_merge",
      "git_diff", "git_log", "git_remote", "git_stash", "git_tag",
      "git_reset", "git_rebase", "git_rm", "git_mv", "git_config",
      "git_ignore">>

\* the names tested by the if / elif chain of its handle_call_tool, in order
GitHandlerChain ==
    <<"git_init", "git_clone", "git_status", "git_add", "git_commit",
      "git_push", "git_pull", "git_branch", "git_checkout", "git_diff",
      "git_log", "git_remote", "git_stash", "git_tag", "git_rm", "git_mv",
      "git_config", "git_ignore">>

\* "required" of each inputSchema
GitRequired(name) ==
    CASE name = "git_init" -> {}
      [] name = "git_clone" -> {"repo_url"}
      [] name = "git_status" -> {"repo"}
      [] name = "git_add" -> {"repo", "files"}
      [] name = "git_commit" -> {"repo", "message"}
      [] name = "git_push" -> {"repo"}
      [] name = "git_pull" -> {"repo"}
      [] name = "git_branch" -> {"repo"}
      [] name = "git_checkout" -> {"repo", "branch"}
      [] name = "git_merge" -> {"repo", "branch"}
      [] name = "git_diff" -> {"repo"}
      [] name = "git_log" -> {"repo"}
      [] name = "git_remote" -> {"repo"}
      [] name = "git_stash" -> {"repo"}
      [] name = "git_tag" -> {"repo"}
      [] name = "git_reset" -> {"repo"}
      [] name = "git_rebase" -> {"repo", "branch"}
      [] name = "git_rm" -> {"repo", "files"}
      [] name = "git_mv" -> {"repo", "source", "destination"}
      [] name = "git_config" -> {}
      [] name = "git_ignore" -> {"repo"}
      [] OTHER -> {}

\* the same for github_pr_server.py
PrListedTools ==
    <<"create_pull_request", "list_pull_requests", "get_pull_request",
      "merge_pull_request", "create_repository", "get_repository",
      "list_user_repositories", "list_branches", "create_branch",
      "delete_branch", "create_issue", "list_issues", "update_issue",
      "create_release", "list_releases", "list_workflows",
      "trigger_workflow", "list_workflow_runs", "list_commits",
      "get_commit", "get_repository_stats", "get_contributor_stats",
      "get_commit_activity", "add_collaborator", "list_collaborators",
      "get_file_content", "create_or_update_file", "search_repositories",
      "search_code">>

PrHandlerChain ==
    <<"create_pull_request", "list_pull_requests", "get_pull_request",
      "merge_pull_request", "create_repository", "get_repository",
      "list_user_repositories", "list_branches", "create_branch",
      "delete_branch", "create_issue", "list_issues", "update_issue",
      "create_release", "list_releases", "list_workflows",
      "trigger_workflow", "list_workflow_runs", "list_commits",
      "get_commit", "get_repository_stats", "get_contributor_stats",
      "get_commit_activity", "add_collaborator", "list_collaborators",
      "get_file_content", "create_or_update_file", "search_repositories",
      "search_code">>

PrRequired(name) ==
    CASE name = "create_pull_request" -> {"repo", "title", "body", "head"}
      [] name = "list_pull_requests" -> {"repo"}
      [] name = "get_pull_request" -> {"repo", "pr_number"}
      [] name = "merge_pull_request" -> {"repo", "pr_number"}
      [] name = "create_repository" -> {"name"}
      [] name = "get_repository" -> {"repo"}
      [] name = "list_user_repositories" -> {}
      [] name = "list_branches" -> {"repo"}
      [] name = "create_branch" -> {"repo", "branch_name"}
      [] name = "delete_branch" -> {"repo", "branch_name"}
      [] name = "create_issue" -> {"repo", "title"}
      [] name = "list_issues" -> {"repo"}
      [] name = "update_issue" -> {"repo", "issue_number"}
      [] name = "create_release" -> {"repo", "tag_name", "name"}
      [] name = "list_releases" -> {"repo"}
      [] name = "list_workflows" -> {"repo"}
      [] name = "trigger_workflow" -> {"repo", "workflow_id"}
      [] name = "list_workflow_runs" -> {"repo"}
      [] name = "list_commits" -> {"repo"}
      [] name = "get_commit" -> {"repo", "sha"}
      [] name = "get_repository_stats" -> {"repo"}
      [] name = "get_contributor_stats" -> {"repo"}
      [] name = "get_commit_activity" -> {"repo"}
      [] name = "add_collaborator" -> {"repo", "username"}
      [] name = "list_collaborators" -> {"repo"}
      [] name = "get_file_content" -> {"repo", "path"}
      [] name = "create_or_update_file" -> {"repo", "path", "content", "message"}
      [] name = "search_repositories" -> {"query"}
      [] name = "search_code" -> {"query"}
      [] OTHER -> {}

Servers == {"git", "github"}
ListedTools(server) == IF server = "git" THEN GitListedTools ELSE PrListedTools
HandlerChain(server) == IF server = "git" THEN GitHandlerChain ELSE PrHandlerChain
Required(server, name) ==
    IF server = "git" THEN GitRequired(name) ELSE PrRequired(name)

SeqRange(s) == {s[i] : i \in DOMAIN s}

\* an optional property of the tools whose schema requires nothing
OptionalProperty(name) ==
    CASE name = "git_init" -> "directory"
      [] name = "git_config" -> "repo"
      [] OTHER -> "limit"

\* the arguments objects tried for a tool: {}, the required properties
\* alone, and for a schema without required properties one optional property
ArgObjects(server, name) ==
    {EmptyDict, [k \in Required(server, name) |-> "v"]}
    \cup (IF Required(server, name) = {}
          THEN {[k \in {OptionalProperty(name)} |-> "v"]} ELSE {})

\* `if not arguments: raise ValueError("Arguments required")` stands before
\* the try; then the chain is walked; the final else raises "Unknown tool"
\* inside the try, which the except turns into an error text
Dispatch(server, name, arguments) ==
    IF DOMAIN arguments = {} THEN "raised"
    ELSE IF name \in SeqRange(HandlerChain(server)) THEN "branch"
    ELSE "unknown_tool"

CallTool(server, name, arguments) ==
    /\ Len(calls) < MaxDispatch
    /\ calls' = Append(calls, [op |-> name, path |-> server, content |-> DOMAIN arguments])
    /\ last' = [tool |-> name, proc |-> 1, repo |-> <<>>,
                kind |-> Dispatch(server, name, arguments),
                isError |-> Dispatch(server, name, arguments) = "raised",
                files |-> DOMAIN arguments]
    /\ UNCHANGED <<workspaces, fs, ops, run>>

NextDispatch ==
    \E server \in Servers :
      \E name \in SeqRange(ListedTools(server)) :
        \E arguments \in ArgObjects(server, name) : CallTool(server, name, arguments)

SpecDispatch == Init /\ [][NextDispatch]_vars

\* -------------------------------------------------------------- git_config
ConfigKeys == {"user.name", "user.email"}
ConfigValues == {"x", "y"}

\* The branch reads `workspace.workspace_path` without having assigned
\* `workspace`: the name is local to handle_call_tool (other branches assign
\* it), so the read raises UnboundLocalError, which the except turns into
\* an error text.  Nothing after that line runs: config.json is neither
\* read nor written, and get_workspace is not called.
GitConfig(p, repo, action, key, value) ==
    /\ run = Idle
    /\ Len(calls) < MaxCalls
    /\ calls' = Append(calls, [op |-> action, path |-> key, content |-> value])
    /\ last' = Text("git_config", p, repo, "error", {})
    /\ UNCHANGED <<workspaces, fs, ops, run>>

NextConfig ==
    \E p \in Procs, repo \in Names, action \in {"get", "set"},
       key \in ConfigKeys, value \in ConfigValues :
        GitConfig(p, repo, action, key, value)

SpecConfig == Init /\ [][NextConfig]_vars

\* --------------------------------------------------------- parse_repo_info
\* Strings are sequences of one-character strings.
DotGit == <<".", "g", "i", "t">>
GithubCom == <<"g", "i", "t", "h", "u", "b", ".", "c", "o", "m">>
HttpsPrefix == <<"h", "t", "t", "p", "s", ":", "/", "/">>

\* sub occurs in s at index i
OccursAt(s, sub, i) ==
    /\ i + Len(sub) - 1 <= Len(s)
    /\ \A j \in 1..Len(sub) : s[i + j - 1] = sub[j]

\* `sub in s`
Contains(s, sub) == \E i \in 1..(Len(s) + 1) : OccursAt(s, sub, i)

\* s.rstrip(ch): every trailing ch is removed
RECURSIVE RStrip(_, _)
RStrip(s, ch) ==
    IF s # <<>> /\ s[Len(s)] = ch THEN RStrip(SubSeq(s, 1, Len(s) - 1), ch) ELSE s

\* s.replace(old, ""): every occurrence, scanning from the left
RECURSIVE Remove(_, _)
Remove(s, old) ==
    IF s = <<>> THEN <<>>
    ELSE IF OccursAt(s, old, 1) THEN Remove(SubSeq(s, Len(old) + 1, Len(s)), old)
    ELSE <<Head(s)>> \o Remove(Tail(s), old)

\* s.split(sep) for a one-character sep
RECURSIVE Split(_, _)
Split(s, sep) ==
    IF \A i \in DOMAIN s : s[i] # sep THEN <<s>>
    ELSE LET i == CHOOSE k \in DOMAIN s :
                     s[k] = sep /\ \A j \in 1..(k - 1) : s[j] # sep
         IN  <<SubSeq(s, 1, i - 1)>> \o Split(SubSeq(s, i + 1, Len(s)), sep)

\* parse_repo_info, the same text in both servers
parse_repo_info(repo_url) ==
    LET u == Remove(RStrip(repo_url, "/"), DotGit)
        parts == Split(u, "/")
    IN  IF Contains(u, GithubCom)
        THEN IF Len(parts) >= 2
             THEN [exc |-> FALSE, owner |-> parts[Len(parts) - 1], repo |-> parts[Len(parts)]]
             ELSE [exc |-> TRUE, owner |-> <<>>, repo |-> <<>>]   \* IndexError
        ELSE IF Len(parts) = 2
             THEN [exc |-> FALSE, owner |-> parts[1], repo |-> parts[2]]
             ELSE [exc |-> TRUE, owner |-> <<>>, repo |-> <<>>]   \* ValueError

UrlPrefixes == {<<>>, GithubCom \o <<"/">>, HttpsPrefix \o GithubCom \o <<"/">>}
UrlSuffixes == {<<>>, DotGit, <<"/">>, DotGit \o <<"/">>}
OwnerNames == {<<"o">>, <<"o", "-", "1">>}
\* repository names: r, r-2, .github, r.github.io
RepoNames == {<<"r">>, <<"r", "-", "2">>, <<".", "g", "i", "t", "h", "u", "b">>, <<"r", ".", "g", "i", "t", "h", "u", "b", ".", "i", "o">>}

\* the accepted forms, each with the owner and the repository it names
WellFormedUrls ==
    {[repo_url |-> pre \o o \o <<"/">> \o r \o suf, owner |-> o, repo |-> r, form |-> "ok"] :
        pre \in UrlPrefixes, o \in OwnerNames, r \in RepoNames, suf \in UrlSuffixes}

\* inputs without github.com that do not split into two parts
OtherUrls ==
    {[repo_url |-> u, owner |-> <<>>, repo |-> <<>>, form |-> "other"] :
        u \in {<<>>, <<"r">>, <<"o", "/", "r", "/", "x">>, <<"/", "/", "o">>}}

\* the argument of one call
InitParse ==
    /\ workspaces = [p \in Procs |-> EmptyDict]
    /\ fs = [d \in Dirs |-> EmptyDir]
    /\ last = NoResult
    /\ ops = 0
    /\ \E in \in WellFormedUrls \cup OtherUrls :
          run = [pc |-> "parse", repo_url |-> in.repo_url, owner |-> in.owner,
                 repo |-> in.repo, form |-> in.form]
    /\ calls = <<>>

\* owner, repo = await parse_repo_info(repo_url)
ParseCall ==
    /\ run.pc = "parse"
    /\ LET r == parse_repo_info(run.repo_url) IN
          last' = [tool |-> "parse_repo_info", proc |-> 1, repo |-> r.repo,
                   kind |-> IF r.exc THEN "error" ELSE "ok",
                   isError |-> r.exc, files |-> {}, owner |-> r.owner]
    /\ run' = [run EXCEPT !.pc = "parsed"]
    /\ UNCHANGED <<workspaces, fs, ops, calls>>

NextParse == ParseCall

SpecParse == InitParse /\ [][NextParse]_vars

\* ------------------------------------------------ paginate_github_request
\* "GitHub max is 100 per page"
PER_PAGE_MAX == 100

Min(a, b) == IF a <= b THEN a ELSE b

\* the endpoint holds the items 1..held in this order and serves page
\* `page` of size per_page, at most PER_PAGE_MAX items a page
ServePage(held, page, per_page) ==
    LET size  == Min(per_page, PER_PAGE_MAX)
        first == (page - 1) * size + 1
        end   == Min(held, page * size)
    IN  IF first > end THEN <<>> ELSE [i \in 1..(end - first + 1) |-> first + i - 1]

\* variant: a full page also ends the loop
NoMorePages_full_page(response, per_page) == Len(response) <= per_page

\* `if len(response) < per_page: break`
NoMorePages(response, per_page) == Len(response) < per_page

\* all_items[:max_items]
Truncate(all_items, max_items) == SubSeq(all_items, 1, Min(Len(all_items), max_items))

\* the call paginate_github_request(..., max_items) on an endpoint that
\* holds `held` items: all_items = [], page = 1, per_page = min(100, max_items)
InitPaginate ==
    /\ workspaces = [p \in Procs |-> EmptyDict]
    /\ fs = [d \in Dirs |-> EmptyDir]
    /\ last = NoResult
    /\ ops = 0
    /\ \E held \in 0..MaxHeld, max_items \in 0..MaxWanted :
          run = [pc |-> "while", held |-> held, max_items |-> max_items,
                 all_items |-> <<>>, page |-> 1,
                 per_page |-> Min(PER_PAGE_MAX, max_items)]
    /\ calls = <<>>

PaginateResult(items) ==
    [tool |-> "paginate_github_request", proc |-> 1, repo |-> <<>>, kind |-> "ok",
     isError |-> FALSE, files |-> {}, items |-> items]

\* one iteration of `while len(all_items) < max_items`
PageRequest ==
    /\ run.pc = "while"
    /\ Len(run.all_items) < run.max_items
    /\ LET response == ServePage(run.held, run.page, run.per_page)
           all_items == run.all_items \o response
       IN  IF NoMorePages(response, run.per_page)
           THEN /\ run' = [run EXCEPT !.pc = "returned", !.all_items = all_items]
                /\ last' = PaginateResult(Truncate(all_items, run.max_items))
           ELSE /\ run' = [run EXCEPT !.all_items = all_items, !.page = @ + 1]
                /\ last' = last
    /\ UNCHANGED <<workspaces, fs, ops, calls>>

\* the loop condition fails: return all_items[:max_items]
PaginateReturn ==
    /\ run.pc = "while"
    /\ ~(Len(run.all_items) < run.max_items)
    /\ run' = [run EXCEPT !.pc = "returned"]
    /\ last' = PaginateResult(Truncate(run.all_items, run.max_items))
    /\ UNCHANGED <<workspaces, fs, ops, calls>>

NextPaginate == PageRequest \/ PaginateReturn

SpecPaginate == InitPaginate /\ [][NextPaginate]_vars

\* ---------------------------------------------------- git_init, git_status
\* Path(directory).name: the last component of the path
BaseName(directory) == LET parts == Split(directory, "/") IN parts[Len(parts)]

\* the characters of a remote URL
UrlChars(url) ==
    IF url = CloneUrl THEN HttpsPrefix \o GithubCom \o <<"/", "a", "/", "b", ".", "g", "i", "t">> ELSE <<>>

\* git_init: the workspace is registered under the name of the directory,
\* redirected to the directory, and init() saves its state there; README.md
\* and .gitignore go to the working tree
GitInit(p, directory) ==
    LET repo == BaseName(directory)
        g  == get_workspace(workspaces[p], fs, repo)
        w1 == [g.w EXCEPT !.workspace_path = directory]
    IN  /\ run = Idle
        /\ workspaces' = [workspaces EXCEPT ![p] = DictSet(@, repo, w1)]
        /\ fs' = init(w1, g.fs).fs
        /\ last' = Text("git_init", p, repo, "ok", {})
        /\ calls' = Append(calls, [op |-> "git_init", path |-> directory, content |-> ""])
        /\ UNCHANGED run

\* what rglob finds under workspace_path: the directory is gone, it holds
\* no file outside the two maps, or it holds one
TreeStates == {"missing", "clean", "untracked"}

\* git_status: parse_repo_info(workspace.remote_url or repo) comes first;
\* `untracked` is assigned only where workspace_path exists and is read
\* only where the staging map is empty
GitStatus(p, repo, tree) ==
    LET g == get_workspace(workspaces[p], fs, repo)
        w == g.w
        parsed == parse_repo_info(IF w.remote_url # None THEN UrlChars(w.remote_url)
                                  ELSE repo)
    IN  /\ Register(p, repo, w)
        /\ fs' = g.fs
        /\ IF parsed.exc \/ (w.staging_area = EmptyDict /\ tree = "missing")
           THEN last' = Text("git_status", p, repo, "error", {})
           ELSE last' = [tool |-> "git_status", proc |-> p, repo |-> repo, kind |-> "ok",
                         isError |-> FALSE, files |-> DOMAIN w.staging_area,
                         branch |-> w.current_branch]

\* the names under which git_init registers the directories
DirNames == {BaseName(d) : d \in Dirs}

NextStatus ==
    \E p \in Procs :
        \/ \E d \in Dirs : GitInit(p, d) /\ Tick
        \/ \E repo \in Names \cup DirNames, item \in AddItems :
              GitAdd(p, repo, <<item>>) /\ Tick
        \/ \E repo \in Names \cup DirNames, url \in Urls :
              GitRemote(p, repo, "add", url) /\ Tick
        \/ \E repo \in Names \cup DirNames, tree \in TreeStates :
              GitStatus(p, repo, tree) /\ Tick

SpecStatus == Init /\ [][NextStatus]_vars

\* ------------------------------------------- two repository names
\* a name that differs from NameAB only by "_" for "/"
NameA_B == <<"a", "_", "b">>
PairNames == {NameAB, NameA_B}

\* stage, commit, checkout and remote operations on either name, in one
\* process
NextPair ==
    \E p \in Procs, repo \in PairNames :
        \/ \E item \in AddItems : GitAdd(p, repo, <<item>>) /\ Tick
        \/ GitCommit(p, repo) /\ Tick
        \/ \E b \in Branches, create \in BOOLEAN, apiFails \in BOOLEAN :
              GitCheckout(p, repo, b, create, apiFails) /\ Tick
        \/ \E action \in {"list", "add", "remove"}, url \in Urls \cup {None} :
              GitRemote(p, repo, action, url) /\ Tick

SpecPair == Init /\ [][NextPair]_vars

\* ------------------------------------------------ two server processes
\* two processes, each with its own `workspaces` dict, on one file system
TwoProcs == {1, 2}

InitTwoProcs ==
    /\ workspaces = [p \in TwoProcs |-> EmptyDict]
    /\ fs = [d \in Dirs |-> EmptyDir]
    /\ last = NoResult
    /\ ops = 0
    /\ run = Idle
    /\ calls = <<>>

\* git_add of one file in process p; the history notes the process, the
\* file and whether the call was the first reference to repo in p
StageInProc(p, repo, item) ==
    LET g == get_workspace(workspaces[p], fs, repo)
        r == AddLoop(g.w, g.fs, <<item>>, {})
    IN  /\ run = Idle
        /\ Len(calls) < MaxCalls
        /\ Effect("git_add", p, repo, r, "ok", r.added)
        /\ calls' = Append(calls, [op |-> "git_add", proc |-> p, path |-> item.path,
                                   opened |-> repo \notin DOMAIN workspaces[p]])
        /\ UNCHANGED <<run, ops>>

NextTwoProcs ==
    \E p \in TwoProcs, repo \in Names, item \in AddItems : StageInProc(p, repo, item)

SpecTwoProcs == InitTwoProcs /\ [][NextTwoProcs]_vars

\* --------------------------------------------- git_stash, write by write
\* stash_data without its timestamp
StashEntry(w, message) ==
    [message |-> IF message # "" THEN message ELSE WipOn(w.current_branch),
     branch  |-> w.current_branch,
     files   |-> w.staging_area]

\* variant: the entry is appended
PushStash_at_end(stashes, entry) == stashes \o <<entry>>

\* stashes.insert(0, stash_data)
PushStash(stashes, entry) == <<entry>> \o stashes

\* variant: the staging map is cleared before the stash file is written
SaveWrite_swapped(step, w, f, stashes) ==
    IF step = 1 THEN clear_staging(w, f) ELSE WriteStashes(w, f, stashes)

\* the two writes of `save` in program order: json.dump(stashes) to
\* stash.json, then workspace.clear_staging()
SaveWrite(step, w, f, stashes) ==
    IF step = 1 THEN WriteStashes(w, f, stashes) ELSE clear_staging(w, f)

\* what an invocation found: the workspace, the stash list and state.json
Found(p, repo) ==
    LET registered == repo \in DOMAIN workspaces[p]
        w == IF registered THEN workspaces[p][repo] ELSE NewWorkspace(repo)
    IN  [registered |-> registered, w |-> w,
         list  |-> LoadStashes(fs, w.workspace_path),
         stash |-> fs[w.workspace_path].stash,
         state |-> fs[w.workspace_path].state]

\* the record of a completed invocation: what it found and what it left
Done(op, kind, pre, w, f) ==
    [op |-> op, kind |-> kind, pre |-> pre,
     post |-> [w |-> w, list |-> LoadStashes(f, w.workspace_path),
               stash |-> f[w.workspace_path].stash,
               state |-> f[w.workspace_path].state]]

\* the records of the last two completed invocations
Keep(rec) == IF calls = <<>> THEN <<rec>> ELSE <<calls[Len(calls)], rec>>

StashText(p, repo, kind) == Text("git_stash", p, repo, kind, {})

\* git_stash save up to the first write
StashSaveBegin(p, repo, message) ==
    LET g == get_workspace(workspaces[p], fs, repo)
        w == g.w
        entry == StashEntry(w, message)
        old == LoadStashes(g.fs, w.workspace_path)
    IN  /\ run = Idle
        /\ workspaces' = [workspaces EXCEPT ![p] = DictSet(@, repo, w)]
        /\ fs' = g.fs
        /\ IF w.staging_area = EmptyDict
           THEN /\ last' = StashText(p, repo, "nochanges")
                /\ run' = Idle
                /\ calls' = Keep(Done("save", "nochanges", Found(p, repo), w, g.fs))
           ELSE /\ Len(old) < MaxStack
                /\ last' = last
                /\ run' = [pc |-> "stash_write", proc |-> p, repo |-> repo, op |-> "save",
                           entry |-> entry, stashes |-> PushStash(old, entry),
                           pre |-> Found(p, repo)]
                /\ calls' = calls
        /\ UNCHANGED ops

\* one of the two writes of save; an exception ends the handler
StashSaveStep ==
    /\ run.pc \in {"stash_write", "stash_clear"}
    /\ LET step == IF run.pc = "stash_write" THEN 1 ELSE 2
           r == SaveWrite(step, workspaces[run.proc][run.repo], fs, run.stashes)
       IN  /\ workspaces' = [workspaces EXCEPT ![run.proc][run.repo] = r.w]
           /\ fs' = r.fs
           /\ IF r.exc \/ step = 2
              THEN /\ last' = StashText(run.proc, run.repo, IF r.exc THEN "error" ELSE "ok")
                   /\ run' = Idle
                   /\ calls' = Keep(Done("save", IF r.exc THEN "error" ELSE "ok",
                                      run.pre, r.w, r.fs))
              ELSE /\ last' = last
                   /\ run' = [run EXCEPT !.pc = "stash_clear"]
                   /\ calls' = calls
    /\ UNCHANGED ops

\* git_stash pop / apply up to the first write
StashPopBegin(p, repo, action) ==
    LET g == get_workspace(workspaces[p], fs, repo)
        w == g.w
        stashes == LoadStashes(g.fs, w.workspace_path)
    IN  /\ run = Idle
        /\ workspaces' = [workspaces EXCEPT ![p] = DictSet(@, repo, w)]
        /\ fs' = g.fs
        /\ IF g.fs[w.workspace_path].stash.kind = "absent" \/ stashes = <<>>
           THEN /\ last' = StashText(p, repo, "nostash")
                /\ run' = Idle
                /\ calls' = Keep(Done(action, "nostash", Found(p, repo), w, g.fs))
           ELSE /\ last' = last
                /\ run' = [pc |-> "pop_save", proc |-> p, repo |-> repo, op |-> action,
                           entry |-> stashes[1], stashes |-> Tail(stashes),
                           pre |-> Found(p, repo)]
                /\ calls' = calls
        /\ UNCHANGED ops

\* workspace.staging_area = stash["files"]; workspace.save_state()
StashPopSave ==
    /\ run.pc = "pop_save"
    /\ LET w == workspaces[run.proc][run.repo]
           r == save_state([w EXCEPT !.staging_area = run.entry.files], fs)
       IN  /\ workspaces' = [workspaces EXCEPT ![run.proc][run.repo] = r.w]
           /\ fs' = r.fs
           /\ IF r.exc \/ run.op # "pop"
              THEN /\ last' = StashText(run.proc, run.repo, IF r.exc THEN "error" ELSE "ok")
                   /\ run' = Idle
                   /\ calls' = Keep(Done(run.op, IF r.exc THEN "error" ELSE "ok",
                                      run.pre, r.w, r.fs))
              ELSE /\ last' = last
                   /\ run' = [run EXCEPT !.pc = "pop_write"]
                   /\ calls' = calls
    /\ UNCHANGED ops

\* stashes.pop(0); json.dump(stashes) to stash.json
StashPopWrite ==
    /\ run.pc = "pop_write"
    /\ LET r == WriteStashes(workspaces[run.proc][run.repo], fs, run.stashes) IN
          /\ fs' = r.fs
          /\ last' = StashText(run.proc, run.repo, IF r.exc THEN "error" ELSE "ok")
          /\ calls' = Keep(Done("pop", IF r.exc THEN "error" ELSE "ok", run.pre, r.w, r.fs))
    /\ run' = Idle
    /\ UNCHANGED <<workspaces, ops>>

\* the files staged around the stash invocations
StashItems ==
    {[kind |-> "file", path |-> "a.txt", content |-> "hello"],
     [kind |-> "file", path |-> "b.txt", content |-> "bye"]}

\* the staging maps those files make
StashStagings ==
    {s \in Dicts({it.path : it \in StashItems}, Contents) :
        \A it \in StashItems : it.path \in DOMAIN s => s[it.path] = it.content}

\* git_add of one file between two stash invocations
StashStage(p, repo, item) ==
    LET g == get_workspace(workspaces[p], fs, repo)
        r == AddLoop(g.w, g.fs, <<item>>, {})
    IN  /\ run = Idle
        /\ Effect("git_add", p, repo, r, "ok", r.added)
        /\ calls' = Keep(Done("add", IF r.exc THEN "error" ELSE "ok", Found(p, repo), r.w, r.fs))
        /\ UNCHANGED <<run, ops>>

\* the process dies, between two statements of a handler or between two
\* invocations; the files stay as they are
StashCrash(p) ==
    /\ workspaces[p] # EmptyDict
    /\ IF run = Idle THEN TRUE ELSE run.proc = p
    /\ workspaces' = [workspaces EXCEPT ![p] = EmptyDict]
    /\ last' = [tool |-> "crash", proc |-> p, repo |-> <<>>, kind |-> run.pc,
                isError |-> FALSE, files |-> {},
                lost |-> IF run = Idle THEN EmptyDict ELSE run.entry.files,
                dir  |-> IF run = Idle THEN <<>>
                         ELSE workspaces[run.proc][run.repo].workspace_path]
    /\ run' = Idle
    /\ calls' = <<>>
    /\ UNCHANGED <<fs, ops>>

\* stash lists that earlier invocations can have left
PriorStashes ==
    {Absent, JsonFile(<<>>),
     JsonFile(<<[message |-> "WIP on main", branch |-> "main",
                 files |-> DictSet(EmptyDict, "b.txt", "bye")]>>)}

\* a registered workspace whose state.json is in step with it; a workspace
\* redirected by git_clone has a directory without .git-mcp
InitStash ==
    \E s \in StashStagings, t \in {DictSet(EmptyDict, "a.txt", RemoteSha)},
       b \in Branches, d \in {DefaultPath(NameAB), ExtDir}, prior \in PriorStashes :
        LET w == [NewWorkspace(NameAB) EXCEPT
                    !.workspace_path = d, !.staging_area = s, !.tracked_files = t,
                    !.current_branch = b]
        IN  /\ workspaces = [p \in Procs |-> DictSet(EmptyDict, NameAB, w)]
            /\ fs = [x \in Dirs |->
                       IF x = DefaultPath(NameAB)
                       THEN [gitmcp |-> TRUE,
                             stash  |-> IF d = x THEN prior ELSE Absent,
                             state  |-> IF d = x THEN JsonFile(JsonDump(w))
                                        ELSE JsonFile(JsonDump(NewWorkspace(NameAB)))]
                       ELSE EmptyDir]
            /\ last = NoResult
            /\ ops = 0
            /\ run = Idle
            /\ calls = <<>>

NextStash ==
    \/ \E p \in Procs, repo \in Names, m \in Messages : StashSaveBegin(p, repo, m)
    \/ StashSaveStep
    \/ \E p \in Procs, repo \in Names, action \in {"pop", "apply"} :
          StashPopBegin(p, repo, action)
    \/ StashPopSave
    \/ StashPopWrite
    \/ \E p \in Procs, repo \in Names, item \in StashItems : StashStage(p, repo, item)
    \/ \E p \in Procs : StashCrash(p)

SpecStash == InitStash /\ [][NextStash]_vars

\* ================================================================ claims
\* the tools of handle_call_tool that assign to a field of the workspace
MutatingTools == {"git_add", "git_commit", "git_checkout", "git_remote",
                  "git_stash", "git_rm", "git_mv", "git_clone", "git_pull"}

\* the four fields that state.json of directory d holds, as load_state reads them
Persisted(f, repo, d) == Fields(JsonLoad(NewWorkspace(repo), f[d].state.doc))

\* C1: when a repository is not registered in the process (a new process)
\* and an earlier process has persisted its state, get_workspace returns a
\* workspace whose four fields equal the persisted values.
C1_StateSurvivesRestart ==
    \A p \in Procs, repo \in Names :
        (repo \notin DOMAIN workspaces[p] /\ fs[DefaultPath(repo)].state.kind = "json")
            => Fields(get_workspace(workspaces[p], fs, repo).w)
                 = Persisted(fs, repo, DefaultPath(repo))

\* C2: when a tool that mutates a workspace has returned, with a success
\* text or an error text, the four fields in memory equal the content of
\* the state.json of the workspace.
C2_MemoryEqualsDisk ==
    (last.tool \in MutatingTools /\ last.repo \in DOMAIN workspaces[last.proc]) =>
        LET w == workspaces[last.proc][last.repo] IN
        /\ fs[w.workspace_path].state.kind = "json"
        /\ Fields(w) = Persisted(fs, last.repo, w.workspace_path)

\* the previously staged paths are all tracked and nothing is staged
Completed(x, pre) ==
    /\ x.staging_area = EmptyDict
    /\ \A file \in DOMAIN pre.staging_area : file \in DOMAIN x.tracked_files

NotHappened(x, pre) ==
    /\ x.staging_area = pre.staging_area
    /\ x.tracked_files = pre.tracked_files

C5_EmptyCommitFails ==
    [][(last'.tool = "git_commit" /\ ops' = ops + 1 /\ last'.kind = "nothing") =>
          /\ last'.isError
          /\ fs' = fs
          /\ last'.repo \in DOMAIN workspaces[last'.proc] =>
                workspaces'[last'.proc][last'.repo] = workspaces[last'.proc][last'.repo]
      ]_vars

\* C6: a commit leaves tracked_files as it was at every path that was not
\* staged, so no tracked path is lost by a commit.
C6_CommitFrame ==
    run.pc = "returned" =>
        LET w == workspaces[run.proc][run.repo]
            pre == run.pre.w
        IN  \A q \in DOMAIN pre.tracked_files :
                /\ q \in DOMAIN w.tracked_files
                /\ q \notin DOMAIN pre.staging_area =>
                      w.tracked_files[q] = pre.tracked_files[q]

C6_Witness ==
    /\ run.pc = "returned"
    /\ run.files = {"b.txt"}
    /\ "a.txt" \in DOMAIN run.pre.w.tracked_files
    /\ DOMAIN workspaces[run.proc][run.repo].tracked_files = {"a.txt", "b.txt"}
    /\ workspaces[run.proc][run.repo].tracked_files["a.txt"]
         = run.pre.w.tracked_files["a.txt"]

\* the staging calls applied in order to an empty map
RECURSIVE Replay(_)
Replay(cs) ==
    IF cs = <<>> THEN [k \in {} |-> ""]
    ELSE LET m == Replay(SubSeq(cs, 1, Len(cs) - 1))
             c == cs[Len(cs)]
         IN  IF c.op = "add"
             THEN [k \in (DOMAIN m) \cup {c.path} |-> IF k = c.path THEN c.content ELSE m[k]]
             ELSE [k \in (DOMAIN m) \ {c.path} |-> m[k]]

\* C7: after any sequence of add_to_staging and remove_from_staging calls
\* on a workspace, the staging map in memory and the staging_area of
\* state.json both equal the map that the same inserts, overwrites and
\* deletes produce from an empty map.
C7_StagingReplay ==
    \A p \in Procs : \A repo \in DOMAIN workspaces[p] :
        LET w == workspaces[p][repo] IN
        /\ w.staging_area = Replay(calls)
        /\ fs[w.workspace_path].state.kind = "json"
        /\ Persisted(fs, repo, w.workspace_path).staging_area = Replay(calls)

C7_Witness ==
    /\ \E i \in DOMAIN calls, j \in DOMAIN calls :
          /\ i < j
          /\ calls[i].op = "add" /\ calls[j].op = "remove"
          /\ calls[i].path = calls[j].path
    /\ \E p \in Procs : \E repo \in DOMAIN workspaces[p] :
          /\ workspaces[p][repo].staging_area # EmptyDict
          /\ Persisted(fs, repo, workspaces[p][repo].workspace_path).staging_area
               = workspaces[p][repo].staging_area

\* C8: load_state on a new instance for the same workspace path, after
\* save_state, yields the four fields of the saving instance.
C8_SaveLoadRoundTrip ==
    [][(last.tool = "save_state" /\ last.kind = "ok" /\ last'.tool = "load_state") =>
          /\ last'.kind = "ok"
          /\ Fields(workspaces'[last'.proc][last'.repo])
               = Fields(workspaces[last'.proc][last'.repo])
      ]_vars

C8_Witness ==
    /\ last.tool = "load_state" /\ last.kind = "ok"
    /\ workspaces[last.proc][last.repo].staging_area = EmptyDict
    /\ workspaces[last.proc][last.repo].remote_url = None
    /\ workspaces[last.proc][last.repo].tracked_files # EmptyDict
    /\ workspaces[last.proc][last.repo].current_branch = "feature"

\* C9: when state.json of a repository is malformed and the repository is
\* not registered in the process, get_workspace fails and leaves the file
\* as it is.
C9_CorruptStateSurfaced ==
    \A p \in Procs, repo \in Names :
        (repo \notin DOMAIN workspaces[p] /\ fs[DefaultPath(repo)].state = Corrupt)
            => LET g == get_workspace(workspaces[p], fs, repo) IN
               /\ g.exc
               /\ g.fs[DefaultPath(repo)].state = Corrupt

\* C10: a git_checkout that switches sets current_branch to the given name
\* in memory and in state.json and leaves staging_area, tracked_files and
\* remote_url as they were, in memory and in state.json.
C10_CheckoutFrame ==
    [][\A p \in Procs, repo \in Names, b \in Branches,
          create \in BOOLEAN, apiFails \in BOOLEAN :
          (GitCheckout(p, repo, b, create, apiFails) /\ last'.kind = "ok") =>
             LET w2 == workspaces'[p][repo]
                 d == w2.workspace_path
             IN  /\ w2.current_branch = b
                 /\ fs'[d].state.kind = "json"
                 /\ Persisted(fs', repo, d).current_branch = b
                 /\ repo \in DOMAIN workspaces[p] =>
                       [Fields(w2) EXCEPT !.current_branch = b]
                         = [Fields(workspaces[p][repo]) EXCEPT !.current_branch = b]
                 /\ fs[d].state.kind = "json" =>
                       [Persisted(fs', repo, d) EXCEPT !.current_branch = b]
                         = [Persisted(fs, repo, d) EXCEPT !.current_branch = b]
      ]_vars

C12_NoInterleaving ==
    [][(run.pc \in Suspended /\ run' = run) =>
          /\ workspaces'[run.proc][run.repo] = workspaces[run.proc][run.repo]
          /\ fs' = fs
          /\ last' = last
      ]_vars

\* C13: every tool name that handle_list_tools of the Git server returns is
\* dispatched to a handler: a call of a listed tool with valid, non-empty
\* arguments never ends in the "Unknown tool" error.
C13_ListedToolsDispatched ==
    [][\A name \in SeqRange(GitListedTools) : \A arguments \in ArgObjects("git", name) :
          (/\ CallTool("git", name, arguments)
           /\ arguments # EmptyDict
           /\ Required("git", name) \subseteq DOMAIN arguments) =>
             last'.kind # "unknown_tool"
      ]_vars

\* C18: a tool whose schema declares no required argument (git_init,
\* list_user_repositories) called with an empty arguments object runs its
\* operation: the call reaches the branch of the tool and does not raise.
C18_EmptyArgumentsAccepted ==
    [][\A server \in Servers : \A name \in {"git_init", "list_user_repositories"} :
          (/\ name \in SeqRange(ListedTools(server))
           /\ Required(server, name) = {}
           /\ CallTool(server, name, EmptyDict)) =>
             last'.kind = "branch"
      ]_vars

\* the value that the latest set of key in cs gave it, None when never set
RECURSIVE LastSet(_, _)
LastSet(cs, key) ==
    IF cs = <<>> THEN None
    ELSE LET c == cs[Len(cs)] IN
         IF c.op = "set" /\ c.path = key THEN c.content
         ELSE LastSet(SubSeq(cs, 1, Len(cs) - 1), key)

\* C14: git_config with action set, a key and a value succeeds, and a
\* git_config get of a key returns the value that the latest set of that
\* key on the repository gave it, whatever other keys were set in between.
C14_ConfigSetGet ==
    [][\A p \in Procs, repo \in Names, action \in {"get", "set"},
          key \in ConfigKeys, value \in ConfigValues :
          GitConfig(p, repo, action, key, value) =>
             /\ action = "set" => last'.kind = "ok"
             /\ (action = "get" /\ LastSet(calls, key) # None) =>
                   /\ last'.kind = "ok"
                   /\ last'.files = {<<key, LastSet(calls, key)>>}
      ]_vars

\* C15: for 'owner/repo', 'github.com/owner/repo' and
\* 'https://github.com/owner/repo', optionally followed by '.git' and/or a
\* trailing '/', parse_repo_info returns exactly (owner, repo), the
\* repository name unaltered; any other input without 'github.com' that
\* does not split into exactly two parts is rejected.
C15_ParseRepoInfo ==
    run.pc = "parsed" =>
        /\ run.form = "ok" =>
              /\ last.kind = "ok"
              /\ last.owner = run.owner
              /\ last.repo = run.repo
        /\ run.form = "other" => last.kind = "error"

\* C16: on an endpoint that holds N items in a fixed order and serves them
\* by page and per_page, paginate_github_request returns exactly the first
\* min(N, max_items) items in that order, for every max_items >= 0.
C16_PaginateFirstItems ==
    run.pc = "returned" =>
        last.items = [i \in 1..Min(run.held, run.max_items) |-> i]

\* three pages were requested and the result was cut to max_items
C16_Witness ==
    /\ run.pc = "returned"
    /\ run.page = 3
    /\ run.max_items > 2 * PER_PAGE_MAX
    /\ Len(run.all_items) > run.max_items
    /\ Len(last.items) = run.max_items

\* C17: after git_init of a directory D and git_add of files in it,
\* git_status with repo = name of D returns a status text that names the
\* current branch and lists every staged path, not an error text, also
\* when no remote is configured.
C17_StatusAfterInit ==
    [][\A p \in Procs, repo \in DirNames, tree \in TreeStates :
          (/\ GitStatus(p, repo, tree)
           /\ \E i \in DOMAIN calls :
                 calls[i].op = "git_init" /\ BaseName(calls[i].path) = repo
           /\ repo \in DOMAIN workspaces[p]
           /\ workspaces[p][repo].staging_area # EmptyDict) =>
             /\ last'.kind = "ok"
             /\ last'.files = DOMAIN workspaces[p][repo].staging_area
             /\ last'.branch = workspaces[p][repo].current_branch
      ]_vars

\* C19: an operation on repository name A leaves, for every other name B
\* opened in the process, the in-memory fields of B and the state file that
\* B persists to as they were.
C19_NamesIndependent ==
    [][\A p \in Procs, B \in PairNames :
          (B \in DOMAIN workspaces[p] /\ last'.repo \in PairNames \ {B}) =>
             /\ workspaces'[p][B] = workspaces[p][B]
             /\ fs'[workspaces[p][B].workspace_path].state
                  = fs[workspaces[p][B].workspace_path].state
      ]_vars

\* C20: with two processes on one workspace directory a lost update
\* happens: when process A has staged path p and p is in state.json, and
\* process B, which opened the workspace earlier and does not hold p, stages
\* a different path q and returns, state.json holds q and no longer p.
C20_LostUpdate ==
    [][\A A \in TwoProcs, B \in TwoProcs, repo \in Names, p \in Paths, item \in AddItems :
          (/\ A # B
           /\ repo \in DOMAIN workspaces[A] /\ repo \in DOMAIN workspaces[B]
           /\ p \in DOMAIN workspaces[A][repo].staging_area
           /\ fs[DefaultPath(repo)].state.kind = "json"
           /\ p \in DOMAIN Persisted(fs, repo, DefaultPath(repo)).staging_area
           /\ p \notin DOMAIN workspaces[B][repo].staging_area
           /\ item.kind = "file" /\ item.path # p
           /\ StageInProc(B, repo, item)) =>
             /\ last'.kind = "ok"
             /\ workspaces'[A][repo] = workspaces[A][repo]
             /\ p \notin DOMAIN Persisted(fs', repo, DefaultPath(repo)).staging_area
             /\ item.path \in DOMAIN Persisted(fs', repo, DefaultPath(repo)).staging_area
      ]_vars

\* process 2 opened the workspace first, process 1 then staged a.txt,
\* process 2 has just staged b.txt, and state.json holds b.txt alone
C20_Witness ==
    /\ Len(calls) = 3
    /\ calls[1].proc = 2 /\ calls[1].opened /\ calls[1].path = ""
    /\ calls[2].proc = 1 /\ calls[2].path = "a.txt"
    /\ calls[3].proc = 2 /\ calls[3].path = "b.txt" /\ ~calls[3].opened
    /\ NameAB \in DOMAIN workspaces[1] /\ NameAB \in DOMAIN workspaces[2]
    /\ "a.txt" \in DOMAIN workspaces[1][NameAB].staging_area
    /\ last.tool = "git_add" /\ last.proc = 2 /\ last.kind = "ok"
    /\ last.files = {"b.txt"}
    /\ DOMAIN workspaces[2][NameAB].staging_area = {"b.txt"}
    /\ DOMAIN Persisted(fs, NameAB, DefaultPath(NameAB)).staging_area = {"b.txt"}

\* the three fields git_stash does not touch
StashFrame(w) ==
    [tracked_files |-> w.tracked_files, current_branch |-> w.current_branch,
     remote_url |-> w.remote_url]

\* C21: git_stash save followed immediately by git_stash pop is a round
\* trip: with staging map S (non-empty) and stash list L before the save,
\* after the pop the staging map is S in memory and in state.json and the
\* stash list is L, and tracked_files, current_branch and remote_url keep
\* their values at every step of the two invocations.
C21_StashRoundTrip ==
    /\ (/\ Len(calls) = 2
        /\ calls[1].op = "save" /\ calls[1].kind = "ok"
        /\ calls[2].op = "pop" /\ calls[2].kind = "ok")
       => LET S == calls[1].pre.w.staging_area
              L == calls[1].pre.list
              end == calls[2].post
          IN  /\ S # EmptyDict
              /\ end.w.staging_area = S
              /\ end.state.kind = "json"
              /\ end.state.doc.staging_area = S
              /\ end.list = L
              /\ end.stash = JsonFile(L)
              /\ \A w \in {calls[1].post.w, calls[2].pre.w, end.w} :
                    StashFrame(w) = StashFrame(calls[1].pre.w)
    /\ run.pc \in {"stash_write", "stash_clear", "pop_save", "pop_write"}
       => StashFrame(workspaces[run.proc][run.repo]) = StashFrame(run.pre.w)

\* a save onto a non-empty stash list, then a pop, both successful
C21_Witness ==
    /\ Len(calls) = 2
    /\ calls[1].op = "save" /\ calls[1].kind = "ok"
    /\ calls[1].pre.list # <<>>
    /\ Cardinality(DOMAIN calls[1].pre.w.staging_area) = 2
    /\ calls[2].op = "pop" /\ calls[2].kind = "ok"

\* a successful save puts the staging map on top of the list; a successful
\* pop restores the top entry and removes exactly that entry
StackSteps(c) ==
    /\ (c.op = "save" /\ c.kind = "ok")
       => /\ c.post.list # <<>>
          /\ Head(c.post.list).files = c.pre.w.staging_area
          /\ Tail(c.post.list) = c.pre.list
    /\ (c.op = "pop" /\ c.kind = "ok")
       => /\ c.pre.list # <<>>
          /\ c.post.w.staging_area = Head(c.pre.list).files
          /\ c.post.list = Tail(c.pre.list)

\* a pop that finds no entry says so and leaves memory and both files alone
EmptyPop(c) ==
    (c.op = "pop" /\ c.pre.list = <<>>)
    => /\ c.kind = "nostash"
       /\ Fields(c.post.w) = Fields(c.pre.w)
       /\ c.post.stash = c.pre.stash
       /\ c.post.state = c.pre.state

\* C22: the stash is a stack: each successful save pushes the staging map,
\* each successful pop restores the most recently saved map that is still
\* stashed and removes exactly that entry, and a pop on an empty or absent
\* stash reports "No stash entries found" and changes nothing.
C22_StashIsStack ==
    \A i \in 1..Len(calls) : StackSteps(calls[i]) /\ EmptyPop(calls[i])

\* the files are the staging map of state.json or an entry of stash.json
OnDisk(files, dir) ==
    \/ fs[dir].state.kind = "json" /\ fs[dir].state.doc.staging_area = files
    \/ \E k \in DOMAIN LoadStashes(fs, dir) : LoadStashes(fs, dir)[k].files = files

\* C23: between the two writes of git_stash save the entry is in stash.json
\* and state.json is not yet rewritten; between the two writes of git_stash
\* pop state.json holds the restored staging map and the entry is still in
\* stash.json; so when the process dies between two writes the stashed
\* files are in at least one of the two files.
C23_StashedContentOnDisk ==
    /\ run.pc = "stash_clear"
       => LET dir == workspaces[run.proc][run.repo].workspace_path IN
          /\ LoadStashes(fs, dir) = run.stashes
          /\ Head(run.stashes).files = run.entry.files
          /\ fs[dir].state = run.pre.state
          /\ OnDisk(run.entry.files, dir)
    /\ run.pc = "pop_write"
       => LET dir == workspaces[run.proc][run.repo].workspace_path IN
          /\ fs[dir].state.kind = "json"
          /\ fs[dir].state.doc.staging_area = run.entry.files
          /\ LoadStashes(fs, dir) = <<run.entry>> \o run.stashes
          /\ OnDisk(run.entry.files, dir)
    /\ (last.tool = "crash" /\ last.kind \in {"stash_clear", "pop_write"})
       => OnDisk(last.lost, last.dir)

\* the process has died between the two writes of a save that pushed two
\* files onto a stash list that already had an entry
C23_Witness ==
    /\ last.tool = "crash" /\ last.kind = "stash_clear"
    /\ Cardinality(DOMAIN last.lost) = 2
    /\ Len(LoadStashes(fs, last.dir)) = 2
    /\ workspaces[last.proc] = EmptyDict

====
